---------------------------- MODULE Spec2Model ----------------------------
(***************************************************************************)
(* Model of the THUMOS annotation helpers (annotation.py, parsing.py).     *)
(*                                                                         *)
(* The library is a set of functions over an in-memory annotation store.   *)
(* Each function is an operator that computes its result the way the code  *)
(* does (same loops, same order), and each call is one action that records *)
(* the call (op, args) and what it returned or raised (ret).               *)
(***************************************************************************)
EXTENDS Integers, Sequences, FiniteSets, TLC

VARIABLES
    annotations_list,   \* the records of the JSON file (json.load, annotation.py:27)
    annotations,        \* the store built by the last load: filename -> list
    lines,              \* the lines of the raw temporal-annotation text file
    pc,                 \* "input": nothing called yet; "loaded": store built;
                        \* "done": a function was applied
    op,                 \* name of the last function called
    args,               \* its arguments
    ret                 \* [kind |-> "ok", val |-> v] or [kind |-> <exception>, msg |-> m]

vars == <<annotations_list, annotations, lines, pc, op, args, ret>>

----------------------------------------------------------------------------
(* Bounds of the explored inputs.                                          *)

MaxLen == 2          \* records in a JSON file / annotations in a list
MaxFrame == 3        \* largest frame index, stores of the sweep functions
MaxSmallFrame == 1   \* largest frame index, inputs of the other functions
NegFrames == 1       \* frame indices of those inputs reach down to -NegFrames
MaxNumFrames == 2    \* largest num_frames / frame_counts entry
MaxLines == 1        \* lines of a raw annotation text file
MaxHalfSeconds == 2  \* timestamps are k/2 seconds, |k| <= MaxHalfSeconds

Files == {"f1", "f2"}
Categories == {"a", "b"}

\* the fields of Annotation the functions read (annotation.py:9-11); the
\* seconds and fps fields are carried along unread and are left out here
Annotation(frames) ==
    [filename : Files, start_frame : frames, end_frame : frames,
     category : Categories]

\* all sequences over S of length <= n
SeqsUpTo(S, n) == UNION {[1..k -> S] : k \in 0..n}

\* the orders in which a dict with key set K may be iterated
KeyOrders(K) ==
    {s \in [1..Cardinality(K) -> K] : \A i, j \in DOMAIN s : i # j => s[i] # s[j]}

Min(x, y) == IF x <= y THEN x ELSE y
Max(x, y) == IF x >= y THEN x ELSE y

EmptyStore == [f \in {} |-> <<>>]
Ok(v) == [kind |-> "ok", val |-> v]
Raise(kind, msg) == [kind |-> kind, msg |-> msg]

----------------------------------------------------------------------------
(* annotation.py                                                           *)

\* annotation.py:28-32: annotations[annotation.filename].append(annotation),
\* on a defaultdict(list), for each record in file order
RECURSIVE group_by_filename(_, _)
group_by_filename(records, store) ==
    IF records = <<>> THEN store
    ELSE LET x == Head(records)
             old == IF x.filename \in DOMAIN store THEN store[x.filename] ELSE <<>>
         IN group_by_filename(Tail(records),
                [f \in DOMAIN store \cup {x.filename} |->
                    IF f = x.filename THEN Append(old, x) ELSE store[f]])

\* annotation.py:66: [x for x in annotations if x.category == category]
RECURSIVE filter_list(_, _)
filter_list(file_annotations, category) ==
    IF file_annotations = <<>> THEN <<>>
    ELSE IF Head(file_annotations).category = category
    THEN <<Head(file_annotations)>> \o filter_list(Tail(file_annotations), category)
    ELSE filter_list(Tail(file_annotations), category)

\* filter_annotations_by_category with a bug: the `if filtered:` test is
\* dropped, so every file keeps a key
filter_keep_empty(store, category) ==
    [f \in DOMAIN store |-> filter_list(store[f], category)]

\* annotation.py:64-69: a new dict; a file is kept only if its filtered list
\* is non-empty
filter_annotations_by_category(store, category) ==
    LET kept == {f \in DOMAIN store : filter_list(store[f], category) # <<>>}
    IN [f \in kept |-> filter_list(store[f], category)]

\* load_annotations_json with a bug: the `if not annotations` test is dropped
load_unchecked(records, filter_category) ==
    LET grouped == group_by_filename(records, EmptyStore)
    IN IF filter_category = "None" THEN Ok(grouped)
       ELSE Ok(filter_annotations_by_category(grouped, filter_category))

\* annotation.py:14-39. filter_category is "None" or a category
load_annotations_json(records, filter_category) ==
    LET grouped == group_by_filename(records, EmptyStore)
    IN IF filter_category = "None" THEN Ok(grouped)
       ELSE LET filtered == filter_annotations_by_category(grouped, filter_category)
            IN IF DOMAIN filtered = {}
               THEN Raise("ValueError", "No annotations found with category")
               ELSE Ok(filtered)


\* annotation.py:83-87: durations.extend(...) per file, in the dict's
\* iteration order `order`, each file's annotations in list order
RECURSIVE get_durations(_, _)
get_durations(store, order) ==
    IF order = <<>> THEN <<>>
    ELSE LET file_annotations == store[Head(order)]
         IN [i \in 1..Len(file_annotations) |->
                file_annotations[i].end_frame - file_annotations[i].start_frame + 1]
            \o get_durations(store, Tail(order))

\* float('inf') (annotation.py:115) and Python's min against it
Inf == [inf |-> TRUE, n |-> 0]
Fin(v) == [inf |-> FALSE, n |-> v]
py_min(m, x) == IF m.inf THEN Fin(x) ELSE Fin(Min(m.n, x))

\* the sort key of annotation.py:118, compared as Python compares tuples
key_le(x, y) ==
    \/ x.start_frame < y.start_frame
    \/ x.start_frame = y.start_frame /\ x.end_frame <= y.end_frame

\* sorted(annotations, key=...) (annotation.py:117-118): a stable sort, here
\* by insertion from the left
RECURSIVE insert_sorted(_, _)
insert_sorted(sorted_prefix, x) ==
    IF sorted_prefix = <<>> THEN <<x>>
    ELSE LET last == sorted_prefix[Len(sorted_prefix)]
         IN IF key_le(last, x) THEN Append(sorted_prefix, x)
            ELSE Append(insert_sorted(SubSeq(sorted_prefix, 1, Len(sorted_prefix) - 1), x),
                        last)

\* sorted_by_key with a bug: the annotations are left in list order
unsorted(file_annotations) == file_annotations

RECURSIVE sorted_by_key(_)
sorted_by_key(file_annotations) ==
    IF file_annotations = <<>> THEN <<>>
    ELSE insert_sorted(
            sorted_by_key(SubSeq(file_annotations, 1, Len(file_annotations) - 1)),
            file_annotations[Len(file_annotations)])

\* annotation.py:121-125: the loop over adjacent pairs, i = 0 .. len - 2
\* (0-based), here from pair i (1-based) on
RECURSIVE min_over_pairs(_, _, _)
min_over_pairs(sorted_annotations, i, m) ==
    IF i > Len(sorted_annotations) - 1 THEN m
    ELSE min_over_pairs(sorted_annotations, i + 1,
            py_min(m, sorted_annotations[i + 1].start_frame
                      - sorted_annotations[i].end_frame))

\* annotation.py:116-125: one iteration of the loop over files
min_background_of_file(file_annotations, m) ==
    LET sorted_annotations == sorted_by_key(file_annotations)
    IN min_over_pairs(sorted_annotations, 1,
                      py_min(m, sorted_annotations[1].start_frame))

\* annotation.py:115-126, files visited in the dict's iteration order
RECURSIVE min_background_from(_, _, _)
min_background_from(store, order, m) ==
    IF order = <<>> THEN m
    ELSE min_background_from(store, Tail(order),
            min_background_of_file(store[Head(order)], m))

compute_min_background_duration(store, order) ==
    min_background_from(store, order, Inf)

\* a[start:stop] on an axis of length n: Python's resolution of one slice
\* bound (negative bounds count from the end, all bounds are clamped)
slice_index(i, n) == IF i < 0 THEN Max(i + n, 0) ELSE Min(i, n)

\* assign_slice with a bug: the slice is incremented, not set, so a frame
\* inside two annotations counts twice
assign_slice_add(frame_groundtruth, num_frames, annotation) ==
    LET lo == slice_index(annotation.start_frame, num_frames)
        hi == slice_index(annotation.end_frame + 1, num_frames)
    IN [i \in 0..(num_frames - 1) |->
            IF lo <= i /\ i < hi THEN frame_groundtruth[i] + 1
            ELSE frame_groundtruth[i]]

\* annotation.py:161-162: frame_groundtruth[0, start:end + 1] = 1.
\* Label vectors are functions on 0 .. num_frames - 1
assign_slice(frame_groundtruth, num_frames, annotation) ==
    LET lo == slice_index(annotation.start_frame, num_frames)
        hi == slice_index(annotation.end_frame + 1, num_frames)
    IN [i \in 0..(num_frames - 1) |->
            IF lo <= i /\ i < hi THEN 1 ELSE frame_groundtruth[i]]

\* annotation.py:160-162: the loop over the annotations, in list order
RECURSIVE assign_all(_, _, _)
assign_all(frame_groundtruth, num_frames, list) ==
    IF list = <<>> THEN frame_groundtruth
    ELSE assign_all(assign_slice(frame_groundtruth, num_frames, Head(list)),
                    num_frames, Tail(list))

\* annotations_to_frame_labels with a bug: the category test is dropped
labels_without_category_test(list, num_frames) ==
    IF Cardinality({list[i].filename : i \in DOMAIN list}) > 1
    THEN Raise("ValueError", "Annotations should be for at most one filename.")
    ELSE IF num_frames < 0
    THEN Raise("ValueError", "negative dimensions are not allowed")
    ELSE Ok(assign_all([i \in 0..(num_frames - 1) |-> 0], num_frames, list))

\* annotation.py:154-163; np.zeros((1, num_frames)) (annotation.py:159)
\* raises ValueError for a negative num_frames
annotations_to_frame_labels(list, num_frames) ==
    IF Cardinality({list[i].filename : i \in DOMAIN list}) > 1
    THEN Raise("ValueError", "Annotations should be for at most one filename.")
    ELSE IF Cardinality({list[i].category : i \in DOMAIN list}) > 1
    THEN Raise("ValueError", "Annotations should be for at most one category.")
    ELSE IF num_frames < 0
    THEN Raise("ValueError", "negative dimensions are not allowed")
    ELSE Ok(assign_all([i \in 0..(num_frames - 1) |-> 0], num_frames, list))

\* sum of the values of a function with a finite domain
RECURSIVE sum_values(_)
sum_values(f) ==
    IF DOMAIN f = {} THEN 0
    ELSE LET k == CHOOSE k \in DOMAIN f : TRUE
         IN f[k] + sum_values([j \in DOMAIN f \ {k} |-> f[j]])

\* annotation.py:190 under `from __future__ import division`: the quotient is
\* kept exact as numerator and denominator. num is a numpy integer as soon
\* as one label vector was summed, and numpy divides by zero with a warning:
\* 0 / 0 is nan and x / 0 is inf; otherwise num is the Python int 0 of
\* sum([]), and dividing it by zero raises ZeroDivisionError
NaN == [num |-> 0, den |-> 0]
true_divide(num, den, is_numpy) ==
    IF den = 0 /\ ~is_numpy
    THEN Raise("ZeroDivisionError", "division by zero")
    ELSE Ok([num |-> num, den |-> den])

\* annotation.py:181-190: one iteration of the loop over class_list
category_prior(training_annotations, category, frame_counts, num_total_frames) ==
    LET category_annotations ==
            filter_annotations_by_category(training_annotations, category)
        files == DOMAIN category_annotations
        labels(f) ==
            annotations_to_frame_labels(category_annotations[f], frame_counts[f])
    IN IF \E f \in files : f \notin DOMAIN frame_counts
       THEN Raise("KeyError", "frame_counts[filename]")
       ELSE IF \E f \in files : labels(f).kind # "ok"
       THEN labels(CHOOSE f \in files : labels(f).kind # "ok")
       ELSE true_divide(
                sum_values([f \in files |-> sum_values(labels(f).val)]),
                num_total_frames, files # {})

\* annotation.py:178-191: priors[i] for i = 0 .. len(class_list) - 1; the first
\* exception ends the call
compute_priors(training_annotations, class_list, frame_counts) ==
    LET num_total_frames == sum_values(frame_counts)
        prior(i) == category_prior(training_annotations, class_list[i],
                                   frame_counts, num_total_frames)
        failed == {i \in DOMAIN class_list : prior(i).kind # "ok"}
    IN IF failed # {}
       THEN prior(CHOOSE i \in failed : \A j \in failed : i <= j)
       ELSE Ok([i \in DOMAIN class_list |-> prior(i).val])

\* annotation.py:194-195
in_annotation(annotation, frame_index) ==
    annotation.start_frame <= frame_index /\ frame_index <= annotation.end_frame

\* sorted(list(set(...))) (annotation.py:227-229): the distinct values of a
\* set of integers, ascending
RECURSIVE sorted_list(_)
sorted_list(S) ==
    IF S = {} THEN <<>>
    ELSE LET lo == CHOOSE x \in S : \A y \in S : x <= y
         IN <<lo>> \o sorted_list(S \ {lo})

\* frames_to_consider with a bug: the set() is dropped, so a frame that is a
\* boundary of two annotations is visited twice
frames_to_consider_repeated(file_annotations) ==
    [i \in 1..Len(file_annotations) |-> file_annotations[i].start_frame]
    \o [i \in 1..Len(file_annotations) |-> file_annotations[i].end_frame]

frames_to_consider(file_annotations) ==
    sorted_list({file_annotations[i].start_frame : i \in DOMAIN file_annotations}
                \cup {file_annotations[i].end_frame : i \in DOMAIN file_annotations})

\* annotation.py:231-233: [annotation for annotation in file_annotations
\* if in_annotation(annotation, frame)]
RECURSIVE annotations_at(_, _)
annotations_at(file_annotations, frame) ==
    IF file_annotations = <<>> THEN <<>>
    ELSE IF in_annotation(Head(file_annotations), frame)
    THEN <<Head(file_annotations)>> \o annotations_at(Tail(file_annotations), frame)
    ELSE annotations_at(Tail(file_annotations), frame)

\* record_frame with a bug: an instance already recorded under its category
\* set is not recorded again (the instances kept as a set, not a list)
record_frame_unique(overlap_instances, file_annotations, frame) ==
    LET current_annotations == annotations_at(file_annotations, frame)
        category_set ==
            {current_annotations[i].category : i \in DOMAIN current_annotations}
        instance ==
            {<<current_annotations[i].category, current_annotations[i].start_frame,
               current_annotations[i].end_frame>> : i \in DOMAIN current_annotations}
        old == IF category_set \in DOMAIN overlap_instances
               THEN overlap_instances[category_set] ELSE <<>>
    IN [k \in DOMAIN overlap_instances \cup {category_set} |->
            IF k = category_set
            THEN IF \E i \in DOMAIN old : old[i] = instance
                 THEN old ELSE Append(old, instance)
            ELSE overlap_instances[k]]

\* annotation.py:231-237: the body of the loop over frames; overlap_instances
\* is a defaultdict(list) from category set to the list of recorded instances
record_frame(overlap_instances, file_annotations, frame) ==
    LET current_annotations == annotations_at(file_annotations, frame)
        category_set ==
            {current_annotations[i].category : i \in DOMAIN current_annotations}
        instance ==
            {<<current_annotations[i].category, current_annotations[i].start_frame,
               current_annotations[i].end_frame>> : i \in DOMAIN current_annotations}
        old == IF category_set \in DOMAIN overlap_instances
               THEN overlap_instances[category_set] ELSE <<>>
    IN [k \in DOMAIN overlap_instances \cup {category_set} |->
            IF k = category_set THEN Append(old, instance) ELSE overlap_instances[k]]

\* annotation.py:230-237: the loop over frames_to_consider
RECURSIVE record_frames(_, _, _)
record_frames(overlap_instances, file_annotations, frames) ==
    IF frames = <<>> THEN overlap_instances
    ELSE record_frames(record_frame(overlap_instances, file_annotations, Head(frames)),
                       file_annotations, Tail(frames))

\* annotation.py:226-237: the loop over files, in the dict's iteration order
RECURSIVE record_files(_, _, _)
record_files(overlap_instances, store, order) ==
    IF order = <<>> THEN overlap_instances
    ELSE record_files(
            record_frames(overlap_instances, store[Head(order)],
                          frames_to_consider(store[Head(order)])),
            store, Tail(order))

\* annotation.py:225-240
compute_overlap_counts(store, order) ==
    LET overlap_instances == record_files([k \in {} |-> <<>>], store, order)
    IN [categories \in DOMAIN overlap_instances |->
            Len(overlap_instances[categories])]

----------------------------------------------------------------------------
(* parsing.py                                                              *)

\* A line "<video_name> <start_time> <end_time>" is [filename, start, end,
\* spaces]: spaces is the number of spaces after the first field, the times
\* are in half seconds. line.strip().split(' ') (parsing.py:33) yields one
\* token per field and an empty token between two adjacent spaces
Token(v) == [empty |-> FALSE, v |-> v]
EmptyToken == [empty |-> TRUE, v |-> 0]
split_line(line) ==
    IF line.spaces = 2
    THEN <<Token(line.filename), EmptyToken, Token(line.start), Token(line.end)>>
    ELSE <<Token(line.filename), Token(line.start), Token(line.end)>>

\* math.floor and math.ceil of the rational x / d, d > 0
floor_div(x, d) == x \div d
\* ceil_div with a bug: the end time is rounded down like the start time
ceil_as_floor(x, d) == x \div d
ceil_div(x, d) == 0 - ((0 - x) \div d)

\* parsing.py:33-47: one iteration of the loop over lines. video_fps holds
\* frame rates in half frames per second, so start * current_fps is
\* (line.start * fps) / 4
parse_line(line, video_fps, category) ==
    LET split == split_line(line)
        details == IF split[2].empty
                   THEN <<split[1]>> \o SubSeq(split, 3, Len(split))
                   ELSE split
        filename == details[1].v
        start == details[2].v
        end == details[3].v
    IN IF filename \notin DOMAIN video_fps
       THEN Raise("KeyError", "video_fps[filename]")
       ELSE Ok([filename |-> filename,
                start_frame |-> floor_div(start * video_fps[filename], 4),
                end_frame |-> ceil_div(end * video_fps[filename], 4),
                category |-> category])

\* parsing.py:24-48: the first exception ends the call
parse_annotation_file(file_lines, video_fps, category) ==
    LET parsed(i) == parse_line(file_lines[i], video_fps, category)
        failed == {i \in DOMAIN file_lines : parsed(i).kind # "ok"}
    IN IF failed # {}
       THEN parsed(CHOOSE i \in failed : \A j \in failed : i <= j)
       ELSE Ok([i \in DOMAIN file_lines |-> parsed(i).val])

----------------------------------------------------------------------------
(* Inputs                                                                  *)

\* The records of a JSON file hold any integers as frame indices, also
\* negative ones and end_frame < start_frame (the loader checks neither).
NaturalFrames == 0..MaxFrame
SmallFrames == 0..MaxSmallFrame
SignedFrames == (0 - NegFrames)..MaxSmallFrame

\* the annotations that keep the data model's start_frame <= end_frame
WellFormed(frames) == {x \in Annotation(frames) : x.start_frame <= x.end_frame}

HalfSeconds == (0 - MaxHalfSeconds)..MaxHalfSeconds
Line == [filename : Files, start : HalfSeconds, end : HalfSeconds, spaces : {1, 2}]

\* frame rates in half frames per second: -0.5, 0.5 and 1.5 fps
FpsValues == {0 - 1, 1, 3}

\* values of num_frames and of the entries of frame_counts
\* annotation.py:14: filter_category=None, or a category to keep
FilterCategories == {"None"} \cup Categories

NumFrames == {0 - 1} \cup 0..MaxNumFrames

\* dicts from some of the keys K to values in V
Dicts(K, V) == UNION {[D -> V] : D \in SUBSET K}

InitWith(records, file_lines) ==
    /\ annotations_list \in records
    /\ lines \in file_lines
    /\ annotations = EmptyStore
    /\ pc = "input"
    /\ op = "none"
    /\ args = <<>>
    /\ ret = Ok(<<>>)

----------------------------------------------------------------------------
(* Calls                                                                   *)

\* load_annotations_json(path, filter_category), filter_category among
\* `filters` ("None" or a category)
CallLoadAnnotationsJson(filter_category) ==
    /\ pc = "input"
    /\ LET r == load_annotations_json(annotations_list, filter_category)
       IN /\ op' = "load_annotations_json"
          /\ args' = [filter_category |-> filter_category]
          /\ ret' = r
          /\ annotations' = IF r.kind = "ok" THEN r.val ELSE annotations
          /\ pc' = IF r.kind = "ok" THEN "loaded" ELSE "done"
    /\ UNCHANGED <<annotations_list, lines>>

CallFilterAnnotationsByCategory ==
    /\ pc = "loaded"
    /\ \E category \in Categories :
        /\ op' = "filter_annotations_by_category"
        /\ args' = [category |-> category]
        /\ ret' = Ok(filter_annotations_by_category(annotations, category))
    /\ pc' = "done"
    /\ UNCHANGED <<annotations_list, annotations, lines>>

CallGetDurations ==
    /\ pc = "loaded"
    /\ \E order \in KeyOrders(DOMAIN annotations) :
        /\ op' = "get_durations"
        /\ args' = [order |-> order]
        /\ ret' = Ok(get_durations(annotations, order))
    /\ pc' = "done"
    /\ UNCHANGED <<annotations_list, annotations, lines>>

CallComputeMinBackgroundDuration ==
    /\ pc = "loaded"
    /\ \E order \in KeyOrders(DOMAIN annotations) :
        /\ op' = "compute_min_background_duration"
        /\ args' = <<>>
        /\ ret' = Ok(compute_min_background_duration(annotations, order))
    /\ pc' = "done"
    /\ UNCHANGED <<annotations_list, annotations, lines>>

CallComputeOverlapCounts ==
    /\ pc = "loaded"
    /\ \E order \in KeyOrders(DOMAIN annotations) :
        /\ op' = "compute_overlap_counts"
        /\ args' = <<>>
        /\ ret' = Ok(compute_overlap_counts(annotations, order))
    /\ pc' = "done"
    /\ UNCHANGED <<annotations_list, annotations, lines>>

\* annotations_to_frame_labels(annotations, num_frames) on the list of records
CallAnnotationsToFrameLabels ==
    /\ pc = "input"
    /\ \E num_frames \in NumFrames :
        /\ op' = "annotations_to_frame_labels"
        /\ args' = [num_frames |-> num_frames]
        /\ ret' = annotations_to_frame_labels(annotations_list, num_frames)
    /\ pc' = "done"
    /\ UNCHANGED <<annotations_list, annotations, lines>>

CallComputePriors ==
    /\ pc = "loaded"
    /\ \E class_list \in SeqsUpTo(Categories, Cardinality(Categories)),
          frame_counts \in Dicts(Files, NumFrames) :
        /\ op' = "compute_priors"
        /\ args' = [class_list |-> class_list, frame_counts |-> frame_counts]
        /\ ret' = compute_priors(annotations, class_list, frame_counts)
    /\ pc' = "done"
    /\ UNCHANGED <<annotations_list, annotations, lines>>

CallParseAnnotationFile ==
    /\ pc = "input"
    /\ \E video_fps \in Dicts(Files, FpsValues), category \in Categories :
        /\ op' = "parse_annotation_file"
        /\ args' = [video_fps |-> video_fps, category |-> category]
        /\ ret' = parse_annotation_file(lines, video_fps, category)
    /\ pc' = "done"
    /\ UNCHANGED <<annotations_list, annotations, lines>>

----------------------------------------------------------------------------
(* Specifications                                                          *)

\* the overlap counter on loaded stores
InitSweep == InitWith(SeqsUpTo(WellFormed(NaturalFrames), MaxLen), {<<>>})
NextSweep ==
    \/ CallLoadAnnotationsJson("None")
    \/ CallComputeOverlapCounts
SpecSweep == InitSweep /\ [][NextSweep]_vars

\* the background-gap estimator on loaded stores
NextGaps ==
    \/ CallLoadAnnotationsJson("None")
    \/ CallComputeMinBackgroundDuration
SpecGaps == InitSweep /\ [][NextGaps]_vars

\* the loader and the category filter
InitLoad == InitWith(SeqsUpTo(WellFormed(SmallFrames), MaxLen), {<<>>})
NextLoad ==
    \/ \E filter_category \in FilterCategories : CallLoadAnnotationsJson(filter_category)
    \/ CallFilterAnnotationsByCategory
SpecLoad == InitLoad /\ [][NextLoad]_vars

\* durations of loaded stores, and the frames the text parser derives
InitDurations ==
    \/ InitWith(SeqsUpTo(Annotation(SmallFrames), MaxLen), {<<>>})
    \/ InitWith({<<>>}, SeqsUpTo(Line, MaxLines))
NextDurations ==
    \/ CallLoadAnnotationsJson("None")
    \/ CallGetDurations
    \/ CallParseAnnotationFile
SpecDurations == InitDurations /\ [][NextDurations]_vars

\* the rasterizer on lists of annotations
InitRaster == InitWith(SeqsUpTo(WellFormed(SignedFrames), MaxLen), {<<>>})
NextRaster == CallAnnotationsToFrameLabels
SpecRaster == InitRaster /\ [][NextRaster]_vars

\* the prior estimator on loaded stores
InitPriors == InitWith(SeqsUpTo(WellFormed(SignedFrames), MaxLen), {<<>>})
NextPriors ==
    \/ CallLoadAnnotationsJson("None")
    \/ CallComputePriors
SpecPriors == InitPriors /\ [][NextPriors]_vars

\* every call, on every input above
Init == InitSweep \/ InitLoad \/ InitDurations \/ InitRaster
Next ==
    \/ \E filter_category \in FilterCategories : CallLoadAnnotationsJson(filter_category)
    \/ CallFilterAnnotationsByCategory
    \/ CallGetDurations
    \/ CallComputeMinBackgroundDuration
    \/ CallComputeOverlapCounts
    \/ CallAnnotationsToFrameLabels
    \/ CallComputePriors
    \/ CallParseAnnotationFile
Spec == Init /\ [][Next]_vars

----------------------------------------------------------------------------
(* Properties of compute_overlap_counts                                    *)

Range(list) == {list[i] : i \in DOMAIN list}

\* the distinct start and end frames of a file's annotations
CandidateFrames(file_annotations) ==
    {x.start_frame : x \in Range(file_annotations)}
    \cup {x.end_frame : x \in Range(file_annotations)}

\* the categories of the annotations of a file that contain frame f
ActiveCategories(file_annotations, f) ==
    {x.category : x \in {y \in Range(file_annotations) :
                            y.start_frame <= f /\ f <= y.end_frame}}

\* the pairs (file, candidate frame) of a store
CandidatePairs(store) ==
    UNION {{<<file, f>> : f \in CandidateFrames(store[file])} : file \in DOMAIN store}

\* the number of pairs (file, candidate frame) whose active category set is S
PairsWithActiveSet(store, S) ==
    Cardinality({p \in CandidatePairs(store) :
                    ActiveCategories(store[p[1]], p[2]) = S})

\* the count a result gives for S (a key that is absent counts 0)
CountOf(counts, S) == IF S \in DOMAIN counts THEN counts[S] ELSE 0

DoctestStore ==
    [f \in {"f1"} |->
        <<[filename |-> "f1", start_frame |-> 0, end_frame |-> 2, category |-> "a"],
          [filename |-> "f1", start_frame |-> 1, end_frame |-> 3, category |-> "b"]>>]

OnlyFile(store, file) == [f \in {file} |-> store[f]]

\* the result of each file alone
PerFileCounts(store) ==
    [file \in DOMAIN store |->
        compute_overlap_counts(OnlyFile(store, file), <<file>>)]

\* the sum over the files of the counts the per-file results give for S
RECURSIVE SumOverFiles(_, _, _)
SumOverFiles(per_file, files, S) ==
    IF files = {} THEN 0
    ELSE LET file == CHOOSE f \in files : TRUE
         IN CountOf(per_file[file], S) + SumOverFiles(per_file, files \ {file}, S)

RECURSIVE SumCandidateFrames(_, _)
SumCandidateFrames(store, files) ==
    IF files = {} THEN 0
    ELSE LET file == CHOOSE f \in files : TRUE
         IN Cardinality(CandidateFrames(store[file]))
            + SumCandidateFrames(store, files \ {file})

----------------------------------------------------------------------------
(* Properties of compute_min_background_duration                           *)

\* (start_frame, end_frame) of x is below that of y
KeyBelow(x, y) ==
    \/ x.start_frame < y.start_frame
    \/ x.start_frame = y.start_frame /\ x.end_frame < y.end_frame

\* the place of list[i] when the list is ordered by (start_frame, end_frame),
\* annotations with equal keys in list order
Rank(list, i) ==
    1 + Cardinality({j \in DOMAIN list :
                        \/ KeyBelow(list[j], list[i])
                        \/ ~KeyBelow(list[i], list[j]) /\ j < i})

\* the list ordered by (start_frame, end_frame)
Ordered(list) ==
    [r \in DOMAIN list |-> list[CHOOSE i \in DOMAIN list : Rank(list, i) = r]]

\* the leading gap and the gaps between neighbours of a file, once ordered
GapsOfFile(list) ==
    LET s == Ordered(list)
    IN {s[1].start_frame}
       \cup {s[i + 1].start_frame - s[i].end_frame : i \in 1..(Len(list) - 1)}

GapsOfStore(store) == UNION {GapsOfFile(store[file]) : file \in DOMAIN store}

\* C2: on a store whose files each have an annotation,
\* compute_min_background_duration returns the least of the leading gaps and
\* the gaps between neighbours in (start_frame, end_frame) order, unclamped;
\* a file with one annotation contributes its leading gap only.
C2_MinBackground ==
    op = "compute_min_background_duration" =>
        /\ \A file \in DOMAIN annotations : Len(annotations[file]) >= 1
        /\ IF DOMAIN annotations = {} THEN ret.val = Inf
           ELSE LET gaps == GapsOfStore(annotations)
                IN /\ ~ret.val.inf
                   /\ ret.val.n \in gaps
                   /\ \A g \in gaps : ret.val.n <= g
        /\ \A file \in DOMAIN annotations :
                Len(annotations[file]) = 1 =>
                    GapsOfFile(annotations[file]) = {annotations[file][1].start_frame}

\* a file listed out of order, (3,3) before (2,2): the gap 3 - 2 = 1 between
\* the sorted neighbours is the minimum, below the leading gap 2
C2_Witness ==
    /\ op = "compute_min_background_duration"
    /\ DOMAIN annotations = {"f1"}
    /\ Len(annotations["f1"]) = 2
    /\ annotations["f1"][1].start_frame = 3 /\ annotations["f1"][1].end_frame = 3
    /\ annotations["f1"][2].start_frame = 2 /\ annotations["f1"][2].end_frame = 2
    /\ ret.val = Fin(1)

----------------------------------------------------------------------------
(* Properties of filter_annotations_by_category and load_annotations_json  *)

\* the k-th smallest element of a set of indices
Kth(indices, k) == CHOOSE i \in indices : Cardinality({j \in indices : j <= i}) = k

\* the elements of list at the indices `indices`, in list order
Subsequence(list, indices) ==
    [k \in 1..Cardinality(indices) |-> list[Kth(indices, k)]]

WithCategory(list, category) == {i \in DOMAIN list : list[i].category = category}
WithFilename(list, file) == {i \in DOMAIN list : list[i].filename = file}

\* a store is what some load of the JSON file returned
LoadedFromFile(store) ==
    \E filter_category \in {"None"} \cup Categories :
        load_annotations_json(annotations_list, filter_category) = Ok(store)

\* C6: filter_annotations_by_category returns a mapping whose keys are the
\* files with an annotation of the category, each mapped to that file's
\* annotations of the category in their original order; no key maps to an
\* empty list; the store it was given is as it was loaded.
C6_Filter ==
    op = "filter_annotations_by_category" =>
        /\ ret.kind = "ok"
        /\ DOMAIN ret.val =
                {file \in DOMAIN annotations :
                    WithCategory(annotations[file], args.category) # {}}
        /\ \A file \in DOMAIN ret.val :
                /\ ret.val[file] =
                        Subsequence(annotations[file],
                                    WithCategory(annotations[file], args.category))
                /\ ret.val[file] # <<>>
        /\ LoadedFromFile(annotations)

\* a store of two files filtered to the category only one of them has
C6_Witness ==
    /\ op = "filter_annotations_by_category"
    /\ DOMAIN annotations = Files
    /\ Cardinality(DOMAIN ret.val) = 1
    /\ \E file \in DOMAIN ret.val : Len(ret.val[file]) = 1

\* C9: load_annotations_json groups the records by filename, keeping each
\* file's records in input order; with a filter category it raises if and
\* only if no record has that category, and otherwise returns the store
\* filtered to that category, which is never empty.
C9_Load ==
    op = "load_annotations_json" =>
        LET wanted == IF args.filter_category = "None" THEN DOMAIN annotations_list
                      ELSE WithCategory(annotations_list, args.filter_category)
        IN /\ ret.kind # "ok" <=> args.filter_category # "None" /\ wanted = {}
           /\ ret.kind # "ok" => ret.kind = "ValueError" /\ pc = "done"
           /\ ret.kind = "ok" =>
                /\ annotations = ret.val
                /\ DOMAIN ret.val =
                        {annotations_list[i].filename : i \in wanted}
                /\ \A file \in DOMAIN ret.val :
                        ret.val[file] =
                            Subsequence(annotations_list,
                                        wanted \cap WithFilename(annotations_list, file))
                /\ args.filter_category # "None" => DOMAIN ret.val # {}

\* a file with records, none of the filter category: the load raises
C9_Witness ==
    /\ op = "load_annotations_json"
    /\ args.filter_category \in Categories
    /\ annotations_list # <<>>
    /\ ret.kind = "ValueError"

----------------------------------------------------------------------------
(* Properties of annotations_to_frame_labels                               *)

FilenamesOf(list) == {x.filename : x \in Range(list)}
CategoriesOf(list) == {x.category : x \in Range(list)}

\* frame i lies inside an annotation of the list
Covered(list, i) ==
    \E x \in Range(list) : x.start_frame <= i /\ i <= x.end_frame

\* C3: for annotations of one filename and one category and num_frames >= 0,
\* annotations_to_frame_labels returns a vector of length num_frames whose
\* entry i is 1 if start_frame <= i <= end_frame for some annotation, else 0.
C3_FrameLabels ==
    (/\ op = "annotations_to_frame_labels"
     /\ args.num_frames >= 0
     /\ Cardinality(FilenamesOf(annotations_list)) <= 1
     /\ Cardinality(CategoriesOf(annotations_list)) <= 1) =>
        /\ ret.kind = "ok"
        /\ DOMAIN ret.val = 0..(args.num_frames - 1)
        /\ \A i \in 0..(args.num_frames - 1) :
                ret.val[i] = IF Covered(annotations_list, i) THEN 1 ELSE 0

\* what holds of the code: C3 for annotations with 0 <= start_frame <= end_frame
FrameLabelsOfNaturalFrames ==
    (/\ op = "annotations_to_frame_labels"
     /\ args.num_frames >= 0
     /\ Cardinality(FilenamesOf(annotations_list)) <= 1
     /\ Cardinality(CategoriesOf(annotations_list)) <= 1
     /\ \A x \in Range(annotations_list) :
            0 <= x.start_frame /\ x.start_frame <= x.end_frame) =>
        /\ ret.kind = "ok"
        /\ DOMAIN ret.val = 0..(args.num_frames - 1)
        /\ \A i \in 0..(args.num_frames - 1) :
                ret.val[i] = IF Covered(annotations_list, i) THEN 1 ELSE 0

MixedMessages ==
    {"Annotations should be for at most one filename.",
     "Annotations should be for at most one category."}

\* C7: annotations_to_frame_labels raises, and returns no vector, whenever
\* its annotations span more than one filename or more than one category,
\* and does not raise for this reason when they share one filename and one
\* category (it then returns a vector, unless num_frames is negative).
C7_MixedInput ==
    op = "annotations_to_frame_labels" =>
        LET mixed ==
                \E x, y \in Range(annotations_list) :
                    x.filename # y.filename \/ x.category # y.category
        IN /\ mixed => /\ ret.kind = "ValueError"
                       /\ ret.msg \in MixedMessages
                       /\ "val" \notin DOMAIN ret
           /\ ~mixed => /\ ret.kind # "ok" => ret.msg \notin MixedMessages
                        /\ ret.kind = "ok" <=> args.num_frames >= 0

\* two annotations of one file and two categories: the call raises
C7_Witness ==
    /\ op = "annotations_to_frame_labels"
    /\ Cardinality(FilenamesOf(annotations_list)) = 1
    /\ Cardinality(CategoriesOf(annotations_list)) = 2
    /\ args.num_frames >= 0
    /\ ret.kind = "ValueError"

----------------------------------------------------------------------------
(* Properties of compute_priors                                            *)

\* the frames 0 .. count - 1 of a file that lie inside an annotation of the
\* category
FramesOfCategory(file_annotations, category, count) ==
    {i \in 0..(count - 1) :
        \E x \in Range(file_annotations) :
            x.category = category /\ x.start_frame <= i /\ i <= x.end_frame}

RECURSIVE SumFramesOfCategory(_, _, _, _)
SumFramesOfCategory(store, files, category, frame_counts) ==
    IF files = {} THEN 0
    ELSE LET file == CHOOSE f \in files : TRUE
         IN Cardinality(FramesOfCategory(store[file], category, frame_counts[file]))
            + SumFramesOfCategory(store, files \ {file}, category, frame_counts)

RECURSIVE SumOfCounts(_, _)
SumOfCounts(frame_counts, files) ==
    IF files = {} THEN 0
    ELSE LET file == CHOOSE f \in files : TRUE
         IN frame_counts[file] + SumOfCounts(frame_counts, files \ {file})

\* C4: entry k of compute_priors is the number of frames, summed over the
\* files, inside an annotation of class_list[k] and inside the file's frame
\* count, divided by the sum of all entries of frame_counts; a category with
\* no matching file gets 0.
C4_Priors ==
    (op = "compute_priors" /\ ret.kind = "ok") =>
        \A k \in DOMAIN args.class_list :
            LET matching ==
                    {file \in DOMAIN annotations :
                        WithCategory(annotations[file], args.class_list[k]) # {}}
            IN /\ matching \subseteq DOMAIN args.frame_counts
               /\ ret.val[k].num =
                    SumFramesOfCategory(annotations, matching, args.class_list[k],
                                        args.frame_counts)
               /\ ret.val[k].den =
                    SumOfCounts(args.frame_counts, DOMAIN args.frame_counts)
               /\ matching = {} => ret.val[k].num = 0

\* what holds of the code: C4 on stores whose annotations have
\* 0 <= start_frame <= end_frame
PriorsOfNaturalFrames ==
    (/\ op = "compute_priors" /\ ret.kind = "ok"
     /\ \A file \in DOMAIN annotations :
            \A x \in Range(annotations[file]) :
                0 <= x.start_frame /\ x.start_frame <= x.end_frame) =>
        \A k \in DOMAIN args.class_list :
            LET matching ==
                    {file \in DOMAIN annotations :
                        WithCategory(annotations[file], args.class_list[k]) # {}}
            IN /\ matching \subseteq DOMAIN args.frame_counts
               /\ ret.val[k].num =
                    SumFramesOfCategory(annotations, matching, args.class_list[k],
                                        args.frame_counts)
               /\ ret.val[k].den =
                    SumOfCounts(args.frame_counts, DOMAIN args.frame_counts)

\* a quotient num / den that is a number in [0, 1] (nan and inf are not)
InUnitInterval(q) ==
    \/ q.den > 0 /\ 0 <= q.num /\ q.num <= q.den
    \/ q.den < 0 /\ 0 >= q.num /\ q.num >= q.den

\* C5 as stated: whenever compute_priors returns, the result has one entry
\* per element of class_list and every entry lies in [0, 1].
C5_PriorsInUnitInterval ==
    (op = "compute_priors" /\ ret.kind = "ok") =>
        /\ DOMAIN ret.val = DOMAIN args.class_list
        /\ \A k \in DOMAIN ret.val : InUnitInterval(ret.val[k])

\* C5, amended: whenever compute_priors returns, the result has one entry per
\* element of class_list, in the same order; if no entry of frame_counts is
\* negative, the frames counted for a category never exceed the sum of all
\* entries of frame_counts, and every entry lies in [0, 1] if that sum is
\* positive and is nan if it is zero.
C5_PriorsAmended ==
    (op = "compute_priors" /\ ret.kind = "ok") =>
        LET total == SumOfCounts(args.frame_counts, DOMAIN args.frame_counts)
        IN /\ DOMAIN ret.val = DOMAIN args.class_list
           /\ (\A file \in DOMAIN args.frame_counts : args.frame_counts[file] >= 0) =>
                \A k \in DOMAIN ret.val :
                    /\ 0 <= ret.val[k].num /\ ret.val[k].num <= total
                    /\ total > 0 => InUnitInterval(ret.val[k])
                    /\ total = 0 => ret.val[k] = NaN

\* two overlapping annotations of one category fill their file, the other
\* file has frames too: the prior is below 1 and the overlap counts once
C5_Witness ==
    /\ op = "compute_priors" /\ ret.kind = "ok"
    /\ Len(args.class_list) = 2
    /\ DOMAIN args.frame_counts = Files
    /\ \E file \in DOMAIN annotations :
        /\ Len(annotations[file]) = 2
        /\ annotations[file][1].category = args.class_list[1]
        /\ annotations[file][2].category = args.class_list[1]
        /\ annotations[file][1].start_frame = 0 /\ annotations[file][1].end_frame = 1
        /\ annotations[file][2].start_frame = 0 /\ annotations[file][2].end_frame = 1
        /\ args.frame_counts[file] = 2
    /\ ret.val[1] = [num |-> 2, den |-> 3]
    /\ ret.val[2] = [num |-> 0, den |-> 3]

----------------------------------------------------------------------------
(* Properties of get_durations and parse_annotation_file                   *)

\* the number of annotations in the files order[1 .. j - 1]
RECURSIVE Offset(_, _, _)
Offset(store, order, j) ==
    IF j <= 1 THEN 0
    ELSE Offset(store, order, j - 1) + Len(store[order[j - 1]])

\* get_durations lists end_frame - start_frame + 1 of every annotation, file
\* by file in the order the files were visited
DurationsListed ==
    LET order == args.order
    IN /\ ret.kind = "ok"
       /\ Len(ret.val) = Offset(annotations, order, Len(order) + 1)
       /\ \A j \in DOMAIN order :
            \A i \in DOMAIN annotations[order[j]] :
                LET x == annotations[order[j]][i]
                    d == ret.val[Offset(annotations, order, j) + i]
                IN /\ d = x.end_frame - x.start_frame + 1
                   /\ d >= 1 <=> x.end_frame >= x.start_frame

\* start_frame = floor(start_seconds * fps), end_frame = ceil(end_seconds * fps),
\* with times in half seconds and rates in half frames per second
FramesRounded(line, fps, x) ==
    /\ 4 * x.start_frame <= line.start * fps
    /\ line.start * fps < 4 * (x.start_frame + 1)
    /\ 4 * (x.end_frame - 1) < line.end * fps
    /\ line.end * fps <= 4 * x.end_frame

\* C8 as stated: every annotation has end_frame >= start_frame, every
\* duration get_durations reports is >= 1, and so it is for the annotations
\* parse_annotation_file builds.
C8_DurationsPositive ==
    /\ \A file \in DOMAIN annotations :
            \A x \in Range(annotations[file]) : x.end_frame >= x.start_frame
    /\ op = "get_durations" => \A i \in DOMAIN ret.val : ret.val[i] >= 1
    /\ (op = "parse_annotation_file" /\ ret.kind = "ok") =>
            \A x \in Range(ret.val) : x.end_frame - x.start_frame + 1 >= 1

\* C8, amended: get_durations reports end_frame - start_frame + 1 for each
\* annotation, which is >= 1 exactly for the annotations with
\* end_frame >= start_frame; parse_annotation_file builds
\* start_frame = floor(start_seconds * fps) and end_frame = ceil(end_seconds * fps),
\* so that end_frame >= start_frame for every line with
\* start_seconds <= end_seconds and fps >= 0.
C8_DurationsAmended ==
    /\ op = "get_durations" => DurationsListed
    /\ (op = "parse_annotation_file" /\ ret.kind = "ok") =>
            /\ Len(ret.val) = Len(lines)
            /\ \A i \in DOMAIN lines :
                LET fps == args.video_fps[lines[i].filename]
                IN /\ FramesRounded(lines[i], fps, ret.val[i])
                   /\ (lines[i].start <= lines[i].end /\ fps >= 0) =>
                        ret.val[i].end_frame >= ret.val[i].start_frame

\* a line from 0.5 s to 1 s at 1.5 fps: 0.75 is rounded down to frame 0 and
\* 1.5 up to frame 2
C8_Witness ==
    /\ op = "parse_annotation_file" /\ ret.kind = "ok"
    /\ Len(lines) = 1
    /\ lines[1].start = 1 /\ lines[1].end = 2
    /\ args.video_fps[lines[1].filename] = 3
    /\ ret.val[1].start_frame = 0 /\ ret.val[1].end_frame = 2

============================================================================
